---- MODULE Spec2Model ----
(***************************************************************************)
(* State-machine model of the two orchestration scripts of the repository: *)
(*   run-tests.py     the test runner (modes all / coverage / one scope /  *)
(*                    fast / watch)                                        *)
(*   start-server.py  the server-start lifecycle                           *)
(* Every external command is a blocking subprocess.run call.  A call is    *)
(* modelled by two steps: the spawn (the command is appended to the        *)
(* invocation log and the script blocks) and the completion, whose outcome *)
(* is chosen by the environment: a child exit code, the child binary not   *)
(* being found, or an operator interrupt delivered while the script waits. *)
(***************************************************************************)
EXTENDS Integers, Sequences, FiniteSets, TLC

VARIABLES
    script,          \* which script runs: "run-tests", "start-server", or a direct call
    args,            \* run-tests: the set of mode flags given on the command line
    platform_system, \* start-server: platform.system()
    pc,              \* position of the script
    caller,          \* who called run_test_project: "all", "specific"
    category,        \* argument of run_specific_tests
    unit,            \* name of the test project run_test_project was called with
    idx,             \* run_all_tests: index into test_projects
    total_failures,  \* run_all_tests: running sum
    ret,             \* value returned by the last callee
    exit_code,       \* run-tests main: exit_code
    status,          \* <<>> while running, <<s>> once the process ended with status s
    log,             \* invocation log: the commands spawned, in order
    calls,           \* the functions entered, in order
    results,         \* one record per completed run_test_project call
    children,        \* what became of each spawned command, in spawn order
    out              \* the messages printed, in order

vars == <<script, args, platform_system, pc, caller, category, unit, idx,
          total_failures, ret, exit_code, status, log, calls, results, children, out>>

---------------------------------------------------------------------------
(* Bounds of the environment.                                              *)

\* ordinary child exit codes 0..MaxExit are enumerated, plus 128 and 255
MaxExit == 2
\* signals 1..MaxSignal can kill a child (returncode -1..-MaxSignal)
MaxSignal == 2

ExitCodes == (0..MaxExit) \cup {128, 255}
SignalCodes == {0 - s : s \in 1..MaxSignal}
\* every returncode subprocess can report for a child that ran
ChildCodes == ExitCodes \cup SignalCodes

\* what the environment can do to a blocking subprocess.run call
Outcomes ==
    [kind : {"exit"}, code : ChildCodes]
        \cup {[kind |-> "notfound", code |-> 0], [kind |-> "interrupt", code |-> 0]}

Flags == {"all", "coverage", "unit", "service", "integration", "stdio", "fast", "watch"}

\* scope identifiers tried against run_specific_tests when it is called directly
ScopeIds == {"unit", "service", "integration", "stdio",
             "all", "coverage", "fast", "watch", "Unit", ""}

\* a printed message: its text, the project or category it names, the code it shows
Line(m) == [msg |-> m, unit |-> "", code |-> 0]
LineU(m, u) == [msg |-> m, unit |-> u, code |-> 0]
LineC(m, c) == [msg |-> m, unit |-> "", code |-> c]

---------------------------------------------------------------------------
(* Library behaviour the scripts rely on.                                  *)

\* subprocess.run(..., check=True): returns normally on exit code 0, raises
\* CalledProcessError on any other return code, FileNotFoundError when the
\* program is missing, and lets KeyboardInterrupt through.
subprocess_run(o) ==
    IF o.kind = "notfound" THEN "FileNotFoundError"
    ELSE IF o.kind = "interrupt" THEN "KeyboardInterrupt"
    ELSE IF o.code = 0 THEN "ok"
    ELSE "CalledProcessError"

\* the status a parent observes for sys.exit(n): the low 8 bits of n
sys_exit(n) == n % 256

\* statuses of a script that dies of an exception nobody catches: 1 with a
\* traceback; for KeyboardInterrupt the interpreter may instead re-raise
\* SIGINT, which a shell reports as 130
UncaughtStatuses(exc) ==
    IF exc = "KeyboardInterrupt" THEN {1, 130} ELSE {1}

\* the script dies of the uncaught exception exc
Uncaught(exc) ==
    /\ \E s \in UncaughtStatuses(exc) : status' = <<s>>
    /\ pc' = "exited"

\* the codes the scripts pass to sys.exit, or return, on a fatal condition
\* run-tests main: toolchain missing
RT_prerequisite_exit == 1
\* run_all_tests: build failed
build_failure_value == 1
\* start-server main: toolchain missing / project file missing / build failed
SS_prerequisite_exit == 1
SS_project_missing_exit == 1
SS_build_failure_exit == 1

---------------------------------------------------------------------------
(* run-tests.py                                                            *)

\* the registry: run_all_tests.test_projects, in order
test_projects == <<"Unit", "Service", "Integration", "Stdio">>

\* run_specific_tests.test_configs: category -> project name
test_configs ==
    [c \in {"unit", "service", "integration", "stdio"} |->
        CASE c = "unit" -> "Unit"
          [] c = "service" -> "Service"
          [] c = "integration" -> "Integration"
          [] c = "stdio" -> "Stdio"]

\* faulty variant: an explicit --all takes precedence over the other flags
SelectMode_all_first(a) ==
    IF "all" \in a THEN "all"
    ELSE IF "coverage" \in a THEN "coverage"
    ELSE IF "unit" \in a THEN "unit"
    ELSE IF "service" \in a THEN "service"
    ELSE IF "integration" \in a THEN "integration"
    ELSE IF "stdio" \in a THEN "stdio"
    ELSE IF "fast" \in a THEN "fast"
    ELSE IF "watch" \in a THEN "watch"
    ELSE "all"

\* main's if/elif chain over the parsed flags
SelectMode(a) ==
    IF "coverage" \in a THEN "coverage"
    ELSE IF "unit" \in a THEN "unit"
    ELSE IF "service" \in a THEN "service"
    ELSE IF "integration" \in a THEN "integration"
    ELSE IF "stdio" \in a THEN "stdio"
    ELSE IF "fast" \in a THEN "fast"
    ELSE IF "watch" \in a THEN "watch"
    ELSE "all"

\* main -> check_dotnet: spawn 'dotnet --version'
RT_check_dotnet_spawn ==
    /\ script = "run-tests" /\ pc = "check_dotnet"
    /\ calls' = Append(calls, "check_dotnet")
    /\ log' = Append(log, <<"dotnet", "--version">>)
    /\ pc' = "check_dotnet_wait"
    /\ UNCHANGED <<children, script, args, platform_system, caller, category, unit, idx,
                   total_failures, ret, exit_code, status, results, out>>

\* faulty variant: main ignores the value check_dotnet returns
RT_check_dotnet_done_unchecked ==
    /\ script = "run-tests" /\ pc = "check_dotnet_wait"
    /\ \E o \in Outcomes :
       /\ children' = Append(children, o)
       /\ LET r == subprocess_run(o) IN
         CASE r = "ok" ->
                /\ \E v8 \in BOOLEAN :
                     out' = out \o (IF v8 THEN <<Line("sdk_version")>>
                                    ELSE <<Line("sdk_version"), Line("version_warning")>>)
                /\ pc' = "dispatch"
                /\ UNCHANGED status
           [] r \in {"CalledProcessError", "FileNotFoundError"} ->
                /\ out' = Append(out, Line("sdk_not_found"))
                /\ pc' = "dispatch"
                /\ UNCHANGED status
           [] r = "KeyboardInterrupt" ->
                /\ out' = Append(out, Line("traceback"))
                /\ Uncaught(r)
    /\ UNCHANGED <<script, args, platform_system, caller, category, unit, idx,
                   total_failures, ret, exit_code, log, calls, results>>

\* check_dotnet returns True / False; main exits 1 on False
RT_check_dotnet_done ==
    /\ script = "run-tests" /\ pc = "check_dotnet_wait"
    /\ \E o \in Outcomes :
       /\ children' = Append(children, o)
       /\ LET r == subprocess_run(o) IN
         CASE r = "ok" ->
                /\ \E v8 \in BOOLEAN :
                     out' = out \o (IF v8 THEN <<Line("sdk_version")>>
                                    ELSE <<Line("sdk_version"), Line("version_warning")>>)
                /\ pc' = "dispatch"
                /\ UNCHANGED status
           [] r \in {"CalledProcessError", "FileNotFoundError"} ->
                /\ out' = Append(out, Line("sdk_not_found"))
                /\ status' = <<sys_exit(RT_prerequisite_exit)>>
                /\ pc' = "exited"
           [] r = "KeyboardInterrupt" ->
                /\ out' = Append(out, Line("traceback"))
                /\ Uncaught(r)
    /\ UNCHANGED <<script, args, platform_system, caller, category, unit, idx,
                   total_failures, ret, exit_code, log, calls, results>>

\* main: the mode dispatch
Dispatch ==
    /\ script = "run-tests" /\ pc = "dispatch"
    /\ exit_code' = 0
    /\ LET m == SelectMode(args) IN
       CASE m = "coverage" ->
              /\ pc' = "run_tests_with_coverage" /\ UNCHANGED category
         [] m \in {"unit", "service", "integration", "stdio"} ->
              /\ pc' = "run_specific_tests" /\ category' = m
         [] m = "fast" ->
              /\ pc' = "run_fast_tests" /\ UNCHANGED category
         [] m = "watch" ->
              /\ pc' = "run_watch_tests" /\ UNCHANGED category
         [] m = "all" ->
              /\ pc' = "run_all_tests" /\ UNCHANGED category
    /\ UNCHANGED <<children, script, args, platform_system, caller, unit, idx,
                   total_failures, ret, status, log, calls, results, out>>

\* run_all_tests -> build_solution: spawn 'dotnet build'
build_solution_spawn ==
    /\ pc = "run_all_tests"
    /\ calls' = calls \o <<"run_all_tests", "build_solution">>
    /\ log' = Append(log, <<"dotnet", "build">>)
    /\ pc' = "build_solution_wait"
    /\ UNCHANGED <<children, script, args, platform_system, caller, category, unit, idx,
                   total_failures, ret, exit_code, status, results, out>>

\* faulty variant: build_solution reports success whatever the build did
build_solution_ignores_failure(r) == TRUE

\* value of build_solution() for a completed build command
build_solution(r) == r = "ok"

\* build_solution returns; run_all_tests returns 1 on False, else starts the loop
build_solution_done ==
    /\ pc = "build_solution_wait"
    /\ \E o \in Outcomes :
       /\ children' = Append(children, o)
       /\ LET r == subprocess_run(o) IN
         IF r \in {"ok", "CalledProcessError"}
         THEN IF build_solution(r)
              THEN /\ out' = Append(out, Line("build_ok"))
                   /\ total_failures' = 0
                   /\ idx' = 1
                   /\ pc' = "all_loop"
                   /\ UNCHANGED <<ret, status>>
              ELSE /\ out' = Append(out, Line("build_failed"))
                   /\ ret' = build_failure_value
                   /\ pc' = "main_assign"
                   /\ UNCHANGED <<total_failures, idx, status>>
         ELSE /\ out' = Append(out, Line("traceback"))
              /\ Uncaught(r)
              /\ UNCHANGED <<total_failures, idx, ret>>
    /\ UNCHANGED <<script, args, platform_system, caller, category, unit,
                   exit_code, log, calls, results>>

\* run_all_tests: the for loop calls run_test_project for the next project
all_loop_call ==
    /\ pc = "all_loop" /\ idx <= Len(test_projects)
    /\ unit' = test_projects[idx]
    /\ caller' = "all"
    /\ pc' = "run_test_project"
    /\ UNCHANGED <<children, script, args, platform_system, category, idx, total_failures,
                   ret, exit_code, status, log, calls, results, out>>

\* run_all_tests: total_failures += run_test_project(...)
all_loop_add ==
    /\ pc = "test_returned" /\ caller = "all"
    /\ total_failures' = total_failures + ret
    /\ idx' = idx + 1
    /\ pc' = "all_loop"
    /\ UNCHANGED <<children, script, args, platform_system, caller, category, unit, ret,
                   exit_code, status, log, calls, results, out>>

\* faulty variant: the loop stops at the first failing project (fail-fast)
all_loop_return_fail_fast ==
    /\ pc = "all_loop" /\ (idx > Len(test_projects) \/ total_failures # 0)
    /\ ret' = total_failures
    /\ pc' = "main_assign"
    /\ UNCHANGED <<children, script, args, platform_system, caller, category, unit, idx,
                   total_failures, exit_code, status, log, calls, results, out>>

\* run_all_tests: return total_failures
all_loop_return ==
    /\ pc = "all_loop" /\ idx > Len(test_projects)
    /\ ret' = total_failures
    /\ pc' = "main_assign"
    /\ UNCHANGED <<children, script, args, platform_system, caller, category, unit, idx,
                   total_failures, exit_code, status, log, calls, results, out>>

\* run_test_project: print the header and spawn 'dotnet test <project>'
run_test_project_spawn ==
    /\ pc = "run_test_project"
    /\ calls' = Append(calls, "run_test_project")
    /\ log' = Append(log, <<"dotnet", "test", unit>>)
    /\ pc' = "run_test_project_wait"
    /\ UNCHANGED <<children, script, args, platform_system, caller, category, unit, idx,
                   total_failures, ret, exit_code, status, results, out>>

\* faulty variant: run_test_project returns a failure flag, not the return code
run_test_project_value_flag(c) == IF c = 0 THEN 0 ELSE 1

\* value returned by run_test_project for a child that ended with return code c
run_test_project_value(c) == IF c = 0 THEN 0 ELSE c

\* faulty variant: run_test_project also handles KeyboardInterrupt and returns
run_test_project_done_swallows_interrupt ==
    /\ pc = "run_test_project_wait"
    /\ \E o \in Outcomes :
       /\ children' = Append(children, o)
       /\ LET r == subprocess_run(o) IN
         IF r \in {"ok", "CalledProcessError", "KeyboardInterrupt"}
         THEN /\ ret' = run_test_project_value(o.code)
              /\ results' = Append(results,
                     [unit |-> unit, exitCode |-> run_test_project_value(o.code)])
              /\ out' = Append(out, IF r = "ok" THEN LineU("PASSED", unit)
                                       ELSE [LineU("FAILED", unit) EXCEPT !.code = o.code])
              /\ pc' = "test_returned"
              /\ UNCHANGED status
         ELSE /\ out' = Append(out, Line("traceback"))
              /\ Uncaught(r)
              /\ UNCHANGED <<ret, results>>
    /\ UNCHANGED <<script, args, platform_system, caller, category, unit, idx,
                   total_failures, exit_code, log, calls>>

\* run_test_project: the child ended, or the call raised
run_test_project_done ==
    /\ pc = "run_test_project_wait"
    /\ \E o \in Outcomes :
       /\ children' = Append(children, o)
       /\ LET r == subprocess_run(o) IN
         IF r \in {"ok", "CalledProcessError"}
         THEN /\ ret' = run_test_project_value(o.code)
              /\ results' = Append(results,
                     [unit |-> unit, exitCode |-> run_test_project_value(o.code)])
              /\ out' = Append(out, IF r = "ok" THEN LineU("PASSED", unit)
                                       ELSE [LineU("FAILED", unit) EXCEPT !.code = o.code])
              /\ pc' = "test_returned"
              /\ UNCHANGED status
         ELSE /\ out' = Append(out, Line("traceback"))
              /\ Uncaught(r)
              /\ UNCHANGED <<ret, results>>
    /\ UNCHANGED <<script, args, platform_system, caller, category, unit, idx,
                   total_failures, exit_code, log, calls>>

\* faulty variant: the stdio entry is missing from the lookup
KnownCategory_without_stdio(c) == c \in {"unit", "service", "integration"}

\* does run_specific_tests find the category in test_configs
KnownCategory(c) == c \in DOMAIN test_configs

\* run_specific_tests(category): unknown category -> message and return 1,
\* otherwise call run_test_project for the configured project
run_specific_tests ==
    /\ pc = "run_specific_tests"
    /\ calls' = Append(calls, "run_specific_tests")
    /\ IF KnownCategory(category)
       THEN /\ unit' = test_configs[category]
            /\ caller' = "specific"
            /\ pc' = "run_test_project"
            /\ UNCHANGED <<ret, out>>
       ELSE /\ out' = out \o <<LineU("unknown_category", category), Line("available_categories")>>
            /\ ret' = 1
            /\ pc' = "specific_return"
            /\ UNCHANGED <<unit, caller>>
    /\ UNCHANGED <<children, script, args, platform_system, category, idx, total_failures,
                   exit_code, status, log, results>>

\* run_specific_tests: return run_test_project(...)
run_specific_tests_pass ==
    /\ pc = "test_returned" /\ caller = "specific"
    /\ pc' = "specific_return"
    /\ UNCHANGED <<children, script, args, platform_system, caller, category, unit, idx,
                   total_failures, ret, exit_code, status, log, calls, results, out>>

\* run_specific_tests has returned to main (or to the direct caller)
run_specific_tests_return ==
    /\ pc = "specific_return"
    /\ pc' = IF script = "run-tests" THEN "main_assign" ELSE "returned"
    /\ UNCHANGED <<children, script, args, platform_system, caller, category, unit, idx,
                   total_failures, ret, exit_code, status, log, calls, results, out>>

\* run_tests_with_coverage: spawn the consolidated coverage command
run_tests_with_coverage_spawn ==
    /\ pc = "run_tests_with_coverage"
    /\ calls' = Append(calls, "run_tests_with_coverage")
    /\ log' = Append(log, <<"dotnet", "test", "--collect">>)
    /\ pc' = "run_tests_with_coverage_wait"
    /\ UNCHANGED <<children, script, args, platform_system, caller, category, unit, idx,
                   total_failures, ret, exit_code, status, results, out>>

\* run_tests_with_coverage: 0, or the child's return code
run_tests_with_coverage_done ==
    /\ pc = "run_tests_with_coverage_wait"
    /\ \E o \in Outcomes :
       /\ children' = Append(children, o)
       /\ LET r == subprocess_run(o) IN
         CASE r = "ok" ->
                /\ out' = Append(out, Line("results_saved"))
                /\ ret' = 0 /\ pc' = "main_assign" /\ UNCHANGED status
           [] r = "CalledProcessError" ->
                /\ ret' = o.code /\ pc' = "main_assign" /\ UNCHANGED <<status, out>>
           [] OTHER ->
                /\ out' = Append(out, Line("traceback"))
                /\ Uncaught(r) /\ UNCHANGED ret
    /\ UNCHANGED <<script, args, platform_system, caller, category, unit, idx,
                   total_failures, exit_code, log, calls, results>>

\* faulty variant: fast mode builds the solution before testing
run_fast_tests_spawn_after_build ==
    /\ pc = "run_fast_tests"
    /\ calls' = Append(calls, "run_fast_tests")
    /\ log' = log \o << <<"dotnet", "build">>, <<"dotnet", "test", "--no-build">> >>
    /\ pc' = "run_fast_tests_wait"
    /\ UNCHANGED <<children, script, args, platform_system, caller, category, unit, idx,
                   total_failures, ret, exit_code, status, results, out>>

\* run_fast_tests: spawn 'dotnet test --no-build'
run_fast_tests_spawn ==
    /\ pc = "run_fast_tests"
    /\ calls' = Append(calls, "run_fast_tests")
    /\ log' = Append(log, <<"dotnet", "test", "--no-build">>)
    /\ pc' = "run_fast_tests_wait"
    /\ UNCHANGED <<children, script, args, platform_system, caller, category, unit, idx,
                   total_failures, ret, exit_code, status, results, out>>

\* run_fast_tests: 0, or the child's return code
run_fast_tests_done ==
    /\ pc = "run_fast_tests_wait"
    /\ \E o \in Outcomes :
       /\ children' = Append(children, o)
       /\ LET r == subprocess_run(o) IN
         CASE r = "ok" ->
                /\ ret' = 0 /\ pc' = "main_assign" /\ UNCHANGED <<status, out>>
           [] r = "CalledProcessError" ->
                /\ ret' = o.code /\ pc' = "main_assign" /\ UNCHANGED <<status, out>>
           [] OTHER ->
                /\ out' = Append(out, Line("traceback"))
                /\ Uncaught(r) /\ UNCHANGED ret
    /\ UNCHANGED <<script, args, platform_system, caller, category, unit, idx,
                   total_failures, exit_code, log, calls, results>>

\* run_watch_tests: spawn 'dotnet watch test'
run_watch_tests_spawn ==
    /\ pc = "run_watch_tests"
    /\ calls' = Append(calls, "run_watch_tests")
    /\ log' = Append(log, <<"dotnet", "watch", "test">>)
    /\ pc' = "run_watch_tests_wait"
    /\ UNCHANGED <<children, script, args, platform_system, caller, category, unit, idx,
                   total_failures, ret, exit_code, status, results, out>>

\* the exceptions run_watch_tests handles itself
run_watch_tests_catches(r) == r \in {"CalledProcessError", "KeyboardInterrupt"}

\* faulty variant: an operator interrupt is reported as a failure
run_watch_tests_value_interrupt_fails(r, c) ==
    IF r = "CalledProcessError" THEN c
    ELSE IF r = "KeyboardInterrupt" THEN 130 ELSE 0

\* value run_watch_tests returns: 0 after a clean child exit, the return code
\* after CalledProcessError, 0 when KeyboardInterrupt reaches its handler
run_watch_tests_value(r, c) ==
    IF r = "CalledProcessError" THEN c ELSE 0

\* run_watch_tests: the watch command ended, or the operator interrupted it
run_watch_tests_done ==
    /\ pc = "run_watch_tests_wait"
    /\ \E o \in Outcomes :
       /\ children' = Append(children, o)
       /\ LET r == subprocess_run(o) IN
         IF r = "ok" \/ run_watch_tests_catches(r)
         THEN /\ out' = IF r = "KeyboardInterrupt"
                        THEN Append(out, Line("watch_stopped_by_user"))
                        ELSE out
              /\ ret' = run_watch_tests_value(r, o.code)
              /\ pc' = "main_assign"
              /\ UNCHANGED status
         ELSE /\ out' = Append(out, Line("traceback"))
              /\ Uncaught(r)
              /\ UNCHANGED ret
    /\ UNCHANGED <<script, args, platform_system, caller, category, unit, idx,
                   total_failures, exit_code, log, calls, results>>

\* main: exit_code = <the mode function's return value>
main_assign ==
    /\ script = "run-tests" /\ pc = "main_assign"
    /\ exit_code' = ret
    /\ pc' = "print_summary"
    /\ UNCHANGED <<children, script, args, platform_system, caller, category, unit, idx,
                   total_failures, ret, status, log, calls, results, out>>

\* print_summary(exit_code): the block printed for the aggregate exit code
summary_block(c) ==
    IF c = 0
    THEN <<Line("ALL TESTS PASSED"), Line("ready for deployment")>>
    ELSE <<Line("SOME TESTS FAILED"), Line("check the test output"), LineC("Exit code", c)>>

\* main: print_summary(exit_code)
print_summary ==
    /\ script = "run-tests" /\ pc = "print_summary"
    /\ calls' = Append(calls, "print_summary")
    /\ out' = out \o summary_block(exit_code)
    /\ pc' = "sys_exit"
    /\ UNCHANGED <<children, script, args, platform_system, caller, category, unit, idx,
                   total_failures, ret, exit_code, status, log, results>>

\* main: sys.exit(exit_code)
RT_exit ==
    /\ script = "run-tests" /\ pc = "sys_exit"
    /\ status' = <<sys_exit(exit_code)>>
    /\ pc' = "exited"
    /\ UNCHANGED <<children, script, args, platform_system, caller, category, unit, idx,
                   total_failures, ret, exit_code, log, calls, results, out>>

---------------------------------------------------------------------------
(* start-server.py                                                         *)

\* what none of the start-server steps touches
ss_unused == <<script, args, platform_system, caller, category, unit, idx,
               total_failures, ret, exit_code, results>>

\* main -> check_dotnet: spawn 'dotnet --version'
SS_check_dotnet_spawn ==
    /\ script = "start-server" /\ pc = "check_dotnet"
    /\ calls' = Append(calls, "check_dotnet")
    /\ log' = Append(log, <<"dotnet", "--version">>)
    /\ pc' = "check_dotnet_wait"
    /\ UNCHANGED <<children, ss_unused, status, out>>

\* check_dotnet returns True / False; main exits 1 on False
SS_check_dotnet_done ==
    /\ script = "start-server" /\ pc = "check_dotnet_wait"
    /\ \E o \in Outcomes :
       /\ children' = Append(children, o)
       /\ LET r == subprocess_run(o) IN
         CASE r = "ok" ->
                /\ \E v8 \in BOOLEAN :
                     out' = out \o (IF v8 THEN <<Line("sdk_found")>>
                                    ELSE <<Line("sdk_found"), Line("version_warning")>>)
                /\ pc' = "check_project"
                /\ UNCHANGED status
           [] r \in {"CalledProcessError", "FileNotFoundError"} ->
                /\ out' = Append(out, Line("sdk_not_found"))
                /\ status' = <<sys_exit(SS_prerequisite_exit)>>
                /\ pc' = "exited"
           [] r = "KeyboardInterrupt" ->
                /\ out' = Append(out, Line("traceback"))
                /\ Uncaught(r)
    /\ UNCHANGED <<ss_unused, log, calls>>

\* faulty variant: main goes on whatever check_project returned
after_check_project_unchecked(found) == "kill_existing_processes"

\* what main does after check_project() returned found
after_check_project(found) == IF found THEN "kill_existing_processes" ELSE "exited"

\* check_project: os.path.exists on the project file; main exits 1 when missing
check_project ==
    /\ script = "start-server" /\ pc = "check_project"
    /\ calls' = Append(calls, "check_project")
    /\ \E exists \in BOOLEAN :
         /\ pc' = after_check_project(exists)
         /\ IF after_check_project(exists) = "exited"
            THEN status' = <<sys_exit(SS_project_missing_exit)>>
            ELSE UNCHANGED status
         /\ IF exists THEN UNCHANGED out
            ELSE out' = Append(out, Line("project_not_found"))
    /\ UNCHANGED <<children, ss_unused, log>>

\* kill_existing_processes: spawn the platform's termination command
kill_existing_processes_spawn ==
    /\ script = "start-server" /\ pc = "kill_existing_processes"
    /\ calls' = Append(calls, "kill_existing_processes")
    /\ log' = Append(log, IF platform_system = "Windows" THEN <<"taskkill">> ELSE <<"pkill">>)
    /\ pc' = "kill_existing_processes_wait"
    /\ UNCHANGED <<children, ss_unused, status, out>>

\* faulty variant: the termination command runs with check=True and no handler
kill_existing_processes_done_checked ==
    /\ script = "start-server" /\ pc = "kill_existing_processes_wait"
    /\ \E o \in Outcomes :
       /\ children' = Append(children, o)
       /\ IF subprocess_run(o) \in {"ok", "KeyboardInterrupt"}
          THEN /\ pc' = "sleep"
               /\ UNCHANGED <<status, out>>
          ELSE /\ out' = Append(out, Line("traceback"))
               /\ Uncaught(subprocess_run(o))
    /\ UNCHANGED <<ss_unused, log, calls>>

\* faulty variant: 'except Exception:' in place of the bare except
kill_existing_processes_done_except_exception ==
    /\ script = "start-server" /\ pc = "kill_existing_processes_wait"
    /\ \E o \in Outcomes :
       /\ children' = Append(children, o)
       /\ IF subprocess_run(o) # "KeyboardInterrupt"
          THEN /\ pc' = "sleep"
               /\ UNCHANGED <<status, out>>
          ELSE /\ out' = Append(out, Line("traceback"))
               /\ Uncaught(subprocess_run(o))
    /\ UNCHANGED <<ss_unused, log, calls>>

\* kill_existing_processes: check=False and a bare except swallow every outcome
kill_existing_processes_done ==
    /\ script = "start-server" /\ pc = "kill_existing_processes_wait"
    /\ \E o \in Outcomes :
       /\ children' = Append(children, o)
       /\ pc' = "sleep"
    /\ UNCHANGED <<ss_unused, status, log, calls, out>>

\* kill_existing_processes: time.sleep(2), outside the try blocks
settle_sleep ==
    /\ script = "start-server" /\ pc = "sleep"
    /\ \E interrupted \in BOOLEAN :
         IF interrupted
         THEN /\ out' = Append(out, Line("traceback"))
              /\ Uncaught("KeyboardInterrupt")
         ELSE /\ pc' = "build_project"
              /\ UNCHANGED <<status, out>>
    /\ UNCHANGED <<children, ss_unused, log, calls>>

\* build_project: spawn 'dotnet build <project>'
build_project_spawn ==
    /\ script = "start-server" /\ pc = "build_project"
    /\ calls' = Append(calls, "build_project")
    /\ log' = Append(log, <<"dotnet", "build">>)
    /\ pc' = "build_project_wait"
    /\ UNCHANGED <<children, ss_unused, status, out>>

\* faulty variant: build_project reports success whatever the build did
build_project_ignores_failure(r) == TRUE

\* value of build_project() for a completed build command
build_project(r) == r = "ok"

\* build_project returns True / False; main exits 1 on False
build_project_done ==
    /\ script = "start-server" /\ pc = "build_project_wait"
    /\ \E o \in Outcomes :
       /\ children' = Append(children, o)
       /\ LET r == subprocess_run(o) IN
         IF r \in {"ok", "CalledProcessError"}
         THEN IF build_project(r)
              THEN /\ out' = Append(out, Line("build_ok"))
                   /\ pc' = "print_server_info"
                   /\ UNCHANGED status
              ELSE /\ out' = Append(out, Line("build_failed"))
                   /\ status' = <<sys_exit(SS_build_failure_exit)>>
                   /\ pc' = "exited"
         ELSE /\ out' = Append(out, Line("traceback"))
              /\ Uncaught(r)
    /\ UNCHANGED <<ss_unused, log, calls>>

\* print_server_info: the endpoint list
print_server_info ==
    /\ script = "start-server" /\ pc = "print_server_info"
    /\ calls' = Append(calls, "print_server_info")
    /\ out' = Append(out, Line("endpoints"))
    /\ pc' = "start_server"
    /\ UNCHANGED <<children, ss_unused, status, log>>

\* start_server: spawn 'dotnet run --project <project>'
start_server_spawn ==
    /\ script = "start-server" /\ pc = "start_server"
    /\ calls' = Append(calls, "start_server")
    /\ log' = Append(log, <<"dotnet", "run">>)
    /\ pc' = "start_server_wait"
    /\ UNCHANGED <<children, ss_unused, status, out>>

\* faulty variant: start_server has no KeyboardInterrupt handler
start_server_catches_failure_only(r) == r = "CalledProcessError"

\* the exceptions start_server handles itself
start_server_catches(r) == r \in {"KeyboardInterrupt", "CalledProcessError"}

\* start_server: both handlers print a message and fall through to the return
start_server_done ==
    /\ script = "start-server" /\ pc = "start_server_wait"
    /\ \E o \in Outcomes :
       /\ children' = Append(children, o)
       /\ LET r == subprocess_run(o) IN
         IF r = "ok" \/ start_server_catches(r)
         THEN /\ out' = CASE r = "KeyboardInterrupt" ->
                               Append(out, Line("server_stopped_by_user"))
                          [] r = "CalledProcessError" ->
                               Append(out, LineC("server_failed_to_start", o.code))
                          [] OTHER -> out
              /\ pc' = "main_end"
              /\ UNCHANGED status
         ELSE /\ out' = Append(out, Line("traceback"))
              /\ Uncaught(r)
    /\ UNCHANGED <<ss_unused, log, calls>>

\* the status of a script whose main() returns without calling sys.exit
main_end_status == 0

\* main returns after start_server(); the interpreter exits
SS_main_end ==
    /\ script = "start-server" /\ pc = "main_end"
    /\ status' = <<main_end_status>>
    /\ pc' = "exited"
    /\ UNCHANGED <<children, ss_unused, log, calls, out>>

---------------------------------------------------------------------------
(* Specifications                                                          *)

\* a fresh process of either script
Init ==
    /\ script \in {"run-tests", "start-server"}
    /\ args \in (IF script = "run-tests" THEN SUBSET Flags ELSE {{}})
    /\ platform_system \in (IF script = "start-server" THEN {"Windows", "Linux"}
                            ELSE {"Linux"})
    /\ pc = "check_dotnet"
    /\ caller = "" /\ category = "" /\ unit = ""
    /\ idx = 0 /\ total_failures = 0 /\ ret = 0 /\ exit_code = 0
    /\ status = <<>>
    /\ log = <<>> /\ calls = <<>> /\ results = <<>> /\ children = <<>> /\ out = <<>>

Next ==
    \/ RT_check_dotnet_spawn \/ RT_check_dotnet_done \/ Dispatch
    \/ build_solution_spawn \/ build_solution_done
    \/ all_loop_call \/ all_loop_add \/ all_loop_return
    \/ run_test_project_spawn \/ run_test_project_done
    \/ run_specific_tests \/ run_specific_tests_pass \/ run_specific_tests_return
    \/ run_tests_with_coverage_spawn \/ run_tests_with_coverage_done
    \/ run_fast_tests_spawn \/ run_fast_tests_done
    \/ run_watch_tests_spawn \/ run_watch_tests_done
    \/ main_assign \/ print_summary \/ RT_exit
    \/ SS_check_dotnet_spawn \/ SS_check_dotnet_done \/ check_project
    \/ kill_existing_processes_spawn \/ kill_existing_processes_done \/ settle_sleep
    \/ build_project_spawn \/ build_project_done \/ print_server_info
    \/ start_server_spawn \/ start_server_done \/ SS_main_end

Spec == Init /\ [][Next]_vars

\* run_specific_tests called directly with an arbitrary scope identifier
InitSpecific ==
    /\ script = "direct"
    /\ args = {}
    /\ platform_system = "Linux"
    /\ pc = "run_specific_tests"
    /\ category \in ScopeIds
    /\ caller = "" /\ unit = ""
    /\ idx = 0 /\ total_failures = 0 /\ ret = 0 /\ exit_code = 0
    /\ status = <<>>
    /\ log = <<>> /\ calls = <<>> /\ results = <<>> /\ children = <<>> /\ out = <<>>

NextSpecific ==
    \/ run_specific_tests \/ run_test_project_spawn \/ run_test_project_done
    \/ run_specific_tests_pass \/ run_specific_tests_return

SpecSpecific == InitSpecific /\ [][NextSpecific]_vars

---------------------------------------------------------------------------
(* Properties                                                              *)

Range(q) == {q[i] : i \in 1..Len(q)}
Called(f) == f \in Range(calls)
IsBuild(c) == c = <<"dotnet", "build">>
IsTestUnit(c) == Len(c) = 3 /\ c[1] = "dotnet" /\ c[2] = "test" /\ c[3] \in Range(test_projects)
\* the test-unit commands of the invocation log, in order
TestCmds == SelectSeq(log, IsTestUnit)
\* positions in the log of the test-unit commands
TestPositions == {j \in 1..Len(log) : IsTestUnit(log[j])}
\* position in the log of the k-th test-unit command
TestPosition(k) ==
    CHOOSE j \in TestPositions : Cardinality({i \in TestPositions : i <= j}) = k
\* the build command has completed with exit code 0 / with a non-zero exit code
BuildSucceeded ==
    \E i \in 1..Len(children) :
        IsBuild(log[i]) /\ children[i].kind = "exit" /\ children[i].code = 0
BuildFailed ==
    \E i \in 1..Len(children) :
        IsBuild(log[i]) /\ children[i].kind = "exit" /\ children[i].code # 0
\* the mode function has returned to main
ModeReturned == pc = "main_assign" \/ Called("print_summary")

\* C1: in 'all' mode, once the build command has ended with a non-zero exit
\* code no test unit is invoked: there is no test-unit command in the log, no
\* call of run_test_project and no result, run_all_tests returns non-zero and
\* the process ends with a non-zero status.
C1_BuildFailureGatesUnits ==
    (script = "run-tests" /\ Called("run_all_tests") /\ BuildFailed) =>
        /\ results = <<>>
        /\ TestCmds = <<>>
        /\ ~Called("run_test_project")
        /\ pc \in {"main_assign", "print_summary", "sys_exit", "exited"}
        /\ (pc = "main_assign" => ret # 0)
        /\ (pc \in {"print_summary", "sys_exit", "exited"} => exit_code # 0)
        /\ (pc = "exited" => status # <<0>>)

C1_Witness ==
    script = "run-tests" /\ Called("run_all_tests") /\ BuildFailed /\ pc = "exited"

\* C2: in 'all' mode the test-unit commands are always a prefix of the registry
\* order, every result carries its own child's exit code, and when
\* run_all_tests returns after a successful build all four units have been
\* invoked exactly once, in order, with four results, whatever the exit codes.
C2_AllUnitsRunInOrder ==
    (script = "run-tests" /\ Called("run_all_tests")) =>
        /\ Len(TestCmds) <= Len(test_projects)
        /\ \A i \in 1..Len(TestCmds) : TestCmds[i][3] = test_projects[i]
        /\ Len(results) <= Len(TestCmds)
        /\ \A i \in 1..Len(results) :
              /\ results[i].unit = test_projects[i]
              /\ results[i].exitCode = children[TestPosition(i)].code
        /\ (BuildSucceeded /\ ModeReturned) =>
              /\ Len(TestCmds) = 4
              /\ Len(results) = 4

\* the service unit failed, the other three succeeded, and the run finished
C2_Witness ==
    /\ script = "run-tests" /\ Called("run_all_tests") /\ BuildSucceeded
    /\ pc = "exited" /\ Called("print_summary")
    /\ Len(results) = 4
    /\ results[1].exitCode = 0 /\ results[2].exitCode = 1
    /\ results[3].exitCode = 0 /\ results[4].exitCode = 0

\* every spawned command has completed
AllCompleted == Len(children) = Len(log)
\* the last spawned command and what became of it
LastCmd == log[Len(log)]
LastChild == children[Len(log)]

\* C3: in 'all' mode with a successful build, the value run_all_tests returns
\* is non-zero if and only if at least one of the four units ended with a
\* non-zero return code (negative signal return codes included).
C3_AggregateNonZeroIffUnitFailed ==
    (script = "run-tests" /\ Called("run_all_tests") /\ BuildSucceeded
        /\ pc = "main_assign") =>
        (ret # 0 <=> \E i \in 1..Len(results) : children[TestPosition(i)].code # 0)

\* C4: the 8-bit exit status of the test runner is 0 when every invoked child
\* command succeeded and non-zero when any of them ended with a non-zero exit
\* code, in every mode, for child exit codes in 0..255.
C4_StatusNonZeroIffChildFailed ==
    (script = "run-tests" /\ pc = "exited" /\ AllCompleted
        /\ \A i \in 1..Len(children) :
              children[i].kind = "exit" /\ children[i].code \in 0..255) =>
        (status = <<0>> <=> \A i \in 1..Len(children) : children[i].code = 0)

\* check_project has reported the project file missing
ProjectMissing == script = "start-server" /\ Line("project_not_found") \in Range(out)

\* C5: in the server-start lifecycle, once check_project reports the project
\* file missing the run has halted with a non-zero status, and neither
\* kill_existing_processes nor build_project nor start_server is invoked.
C5_ProjectMissingHalts ==
    ProjectMissing =>
        /\ pc = "exited"
        /\ Len(status) = 1 /\ status # <<0>>
        /\ ~Called("kill_existing_processes")
        /\ ~Called("build_project")
        /\ ~Called("start_server")
        /\ log = << <<"dotnet", "--version">> >>

C5_Witness == ProjectMissing /\ pc = "exited" /\ Called("check_project")

\* the service process has ended on its own with a non-zero return code
ServiceFailed ==
    /\ script = "start-server" /\ Len(log) > 0 /\ AllCompleted
    /\ LastCmd = <<"dotnet", "run">>
    /\ LastChild.kind = "exit" /\ LastChild.code # 0

\* C6: in the server-start lifecycle, when the service process exits on its
\* own with a non-zero code c, the run ends with that same code c as its exit
\* status (so it differs from the status 0 of a stop by the user).
C6_ServiceExitCodeSurfaced ==
    (ServiceFailed /\ pc = "exited") => status = <<sys_exit(LastChild.code)>>

\* the operator interrupted the script while it waited on the service process
ServerInterrupted ==
    /\ script = "start-server" /\ Len(log) > 0 /\ AllCompleted
    /\ LastCmd = <<"dotnet", "run">>
    /\ LastChild.kind = "interrupt"

\* C7: in the server-start lifecycle, an operator interrupt delivered while
\* start_server waits on the service process yields the 'stopped by user'
\* outcome, and the process exits with status 0.
C7_InterruptStopsCleanly ==
    ServerInterrupted =>
        /\ pc \in {"main_end", "exited"}
        /\ out[Len(out)] = Line("server_stopped_by_user")
        /\ (pc = "exited" => status = <<0>>)

C7_Witness == ServerInterrupted /\ pc = "exited"

\* C8: a run given --fast never spawns the build command, and in fast mode
\* (run_fast_tests) the only command spawned after the pre-flight version
\* check is the aggregate 'dotnet test --no-build'.
C8_FastNeverBuilds ==
    script = "run-tests" =>
        /\ ("fast" \in args => \A i \in 1..Len(log) : ~IsBuild(log[i]))
        /\ Called("run_fast_tests") =>
              /\ Len(log) = 2
              /\ log[1] = <<"dotnet", "--version">>
              /\ log[2] = <<"dotnet", "test", "--no-build">>
              /\ ~Called("build_solution")

C8_Witness ==
    /\ script = "run-tests" /\ "fast" \in args /\ Called("run_fast_tests")
    /\ pc = "exited" /\ Called("print_summary") /\ Len(children) = 2

\* the four declared scope identifiers
DeclaredScopes == {"unit", "service", "integration", "stdio"}

\* C9: run_specific_tests(s) resolves s to a unit and invokes it if and only if
\* s is one of unit, service, integration, stdio; for every other s it prints
\* the unknown-category error with the list of valid identifiers, returns a
\* non-zero value and spawns no command.
C9_ResolveIffDeclared ==
    Called("run_specific_tests") =>
        IF category \in DeclaredScopes
        THEN /\ \A l \in Range(out) : l.msg # "unknown_category"
             /\ unit \in Range(test_projects)
             /\ (pc # "run_test_project" =>
                    /\ Called("run_test_project")
                    /\ Len(log) = 1 /\ log[1] = <<"dotnet", "test", unit>>)
        ELSE /\ log = <<>>
             /\ ~Called("run_test_project")
             /\ pc \in {"specific_return", "returned"}
             /\ ret # 0
             /\ out = <<LineU("unknown_category", category),
                        Line("available_categories")>>

C9_Witness ==
    /\ category \notin DeclaredScopes /\ Called("run_specific_tests")
    /\ pc = "returned" /\ ret = 1

\* the operator interrupted the script while it waited on the watch command
WatchInterrupted ==
    /\ script = "run-tests" /\ Len(log) > 0 /\ AllCompleted
    /\ LastCmd = <<"dotnet", "watch", "test">>
    /\ LastChild.kind = "interrupt"

\* C10: in watch mode, an operator interrupt delivered while the watch command
\* runs is a clean stop: run_watch_tests prints 'stopped by user' and returns
\* 0, and the process exits with status 0.
C10_WatchInterruptIsClean ==
    WatchInterrupted =>
        /\ pc \in {"main_assign", "print_summary", "sys_exit", "exited"}
        /\ Line("watch_stopped_by_user") \in Range(out)
        /\ (pc = "main_assign" => ret = 0)
        /\ (pc # "main_assign" => exit_code = 0)
        /\ (pc = "exited" => status = <<0>>)

C10_Witness == WatchInterrupted /\ pc = "exited"

\* the pre-flight version check of the test runner has failed: the command
\* was not found or ended with a non-zero exit code
ToolchainUnavailable ==
    /\ script = "run-tests" /\ Len(children) >= 1
    /\ \/ children[1].kind = "notfound"
       \/ children[1].kind = "exit" /\ children[1].code # 0

\* C11: in the test runner, when the pre-flight toolchain check fails the run
\* is aborted in every mode: the process has ended with a non-zero status, the
\* version check is the only command ever spawned (no build, no test unit),
\* and no mode function and no summary was entered.
C11_ToolchainUnavailableAborts ==
    ToolchainUnavailable =>
        /\ pc = "exited"
        /\ Len(status) = 1 /\ status # <<0>>
        /\ log = << <<"dotnet", "--version">> >>
        /\ calls = <<"check_dotnet">>
        /\ results = <<>>
        /\ out = <<Line("sdk_not_found")>>

\* reached with mode flags given, for a missing program
C11_Witness ==
    /\ ToolchainUnavailable /\ children[1].kind = "notfound"
    /\ pc = "exited" /\ args = {"unit", "fast"}

\* a test unit has returned a non-zero value
UnitFailed == \E i \in 1..Len(results) : results[i].exitCode # 0

\* C12: the exit status a script produces for a missing prerequisite (and, in
\* the server-start script, for a missing project file) differs from every
\* status the same script produces for a build failure or for test-unit
\* failures.
C12_PrerequisiteCodeDistinguished ==
    /\ (script = "run-tests" /\ pc = "exited" /\ Called("print_summary")
            /\ (BuildFailed \/ UnitFailed)) =>
          status # <<sys_exit(RT_prerequisite_exit)>>
    /\ (script = "start-server" /\ pc = "exited" /\ BuildFailed) =>
          /\ status # <<sys_exit(SS_prerequisite_exit)>>
          /\ status # <<sys_exit(SS_project_missing_exit)>>

\* how many times f was entered / how many build commands were spawned
CallCount(f) == Cardinality({i \in 1..Len(calls) : calls[i] = f})
BuildCount == Cardinality({i \in 1..Len(log) : IsBuild(log[i])})

\* C13: in the server-start lifecycle the build command is spawned at most
\* once, and exactly once in a run that reached build_project; once it has
\* ended with a non-zero exit code the run has halted with the build-failure
\* message and a non-zero status, and neither print_server_info nor
\* start_server is performed.
C13_BuildOnceAndFailureHalts ==
    script = "start-server" =>
        /\ CallCount("build_project") <= 1
        /\ BuildCount = CallCount("build_project")
        /\ BuildFailed =>
              /\ pc = "exited"
              /\ Len(status) = 1 /\ status # <<0>>
              /\ out[Len(out)] = Line("build_failed")
              /\ ~Called("print_server_info")
              /\ ~Called("start_server")
              /\ \A i \in 1..Len(log) : log[i] # <<"dotnet", "run">>

C13_Witness ==
    /\ script = "start-server" /\ BuildFailed /\ pc = "exited"
    /\ CallCount("build_project") = 1

\* positions of the non-watch commands the operator interrupted
InterruptedAt ==
    {k \in 1..Len(children) :
        children[k].kind = "interrupt" /\ log[k] # <<"dotnet", "watch", "test">>}
\* a line of the final summary block
IsSummaryLine(l) == l.msg \in {"ALL TESTS PASSED", "SOME TESTS FAILED"}

\* C14: in the non-watch modes of the test runner, an operator interrupt
\* delivered while command k runs aborts the run: the process has ended, k is
\* the last command spawned, the interrupted unit and the units after it
\* have no result, and no summary is printed.
C14_InterruptAbortsRemainingUnits ==
    (script = "run-tests" /\ InterruptedAt # {}) =>
        /\ pc = "exited"
        /\ InterruptedAt = {Len(log)}
        /\ Len(results) = Len(TestCmds) - (IF IsTestUnit(LastCmd) THEN 1 ELSE 0)
        /\ ~Called("print_summary")
        /\ \A i \in 1..Len(out) : ~IsSummaryLine(out[i])

\* all mode: the second unit was interrupted after the first had completed
C14_Witness ==
    /\ script = "run-tests" /\ Called("run_all_tests") /\ InterruptedAt # {}
    /\ Len(TestCmds) = 2 /\ Len(results) = 1 /\ pc = "exited"

\* the test project each single-scope flag names
ScopeProject(f) ==
    CASE f = "unit" -> "Unit"
      [] f = "service" -> "Service"
      [] f = "integration" -> "Integration"
      [] f = "stdio" -> "Stdio"

\* C15: in single-scope mode exactly one unit is invoked, the one named by a
\* scope flag that was given, with no build command before it; the value main
\* passes to sys.exit is that unit's child return code, and for a child exit
\* code in 0..255 it is the exit status of the process.
C15_SingleScopeRunsOneUnit ==
    (script = "run-tests" /\ Called("run_specific_tests")) =>
        /\ category \in args \cap DeclaredScopes
        /\ unit = ScopeProject(category)
        /\ BuildCount = 0 /\ ~Called("build_solution")
        /\ CallCount("run_test_project") <= 1
        /\ Called("run_test_project") =>
              log = << <<"dotnet", "--version">>, <<"dotnet", "test", ScopeProject(category)>> >>
        /\ Called("print_summary") =>
              /\ Len(results) = 1
              /\ exit_code = children[2].code
        /\ (pc = "exited" /\ Called("print_summary") /\ children[2].code \in 0..255) =>
              status = <<children[2].code>>

C15_Witness ==
    /\ script = "run-tests" /\ Called("run_specific_tests")
    /\ args = {"integration"} /\ pc = "exited" /\ status = <<2>>

\* the fixed order of the lifecycle steps
LifecycleOrder ==
    <<"check_dotnet", "check_project", "kill_existing_processes",
      "build_project", "print_server_info", "start_server">>
IsPrefix(a, b) == Len(a) <= Len(b) /\ \A i \in 1..Len(a) : a[i] = b[i]

\* the terminal states the lifecycle names
NamedTerminals ==
    {"Halted(prerequisite failure)", "Halted(project missing)",
     "Halted(build failure)", "Stopped(by user)", "Failed(service exited non-zero)"}

\* the terminal state of an ended lifecycle, read off the last thing it printed
Terminal ==
    LET l == out[Len(out)].msg IN
    CASE l = "sdk_not_found" -> "Halted(prerequisite failure)"
      [] l = "project_not_found" -> "Halted(project missing)"
      [] l = "build_failed" -> "Halted(build failure)"
      [] l = "server_stopped_by_user" -> "Stopped(by user)"
      [] l = "server_failed_to_start" -> "Failed(service exited non-zero)"
      [] l = "traceback" -> "Crashed(uncaught exception)"
      [] OTHER -> "Exited(service exited zero)"

\* the service process has ended on its own with exit code 0
ServiceExitedZero ==
    /\ script = "start-server" /\ Len(log) > 0 /\ AllCompleted
    /\ LastCmd = <<"dotnet", "run">>
    /\ LastChild.kind = "exit" /\ LastChild.code = 0

IsKill(c) == c \in { <<"pkill">>, <<"taskkill">> }
\* the termination command has completed, without an operator interrupt / with one
KillEnded ==
    /\ script = "start-server" /\ Len(children) >= 2 /\ IsKill(log[2])
    /\ children[2].kind \in {"exit", "notfound"}
KillInterrupted ==
    /\ script = "start-server" /\ Len(children) >= 2 /\ IsKill(log[2])
    /\ children[2].kind = "interrupt"
\* the step that completes the termination command leaves the script at the
\* settle delay, with nothing printed and no status set
KillStepSwallowed ==
    (script = "start-server" /\ pc = "kill_existing_processes_wait") =>
        /\ pc' = "sleep" /\ status' = <<>>
        /\ UNCHANGED <<out, calls, log, ret, exit_code>>
\* the step after the settle delay enters the build, unless the delay itself
\* is interrupted
SettleStepBuilds ==
    (script = "start-server" /\ pc = "sleep" /\ pc' # "exited") =>
        pc' = "build_project" /\ status' = <<>>

\* C17: whatever the termination command did (program missing, any exit code,
\* zero or not), nothing is escalated: the step that completes it leaves the
\* script at the settle delay with no message and no status, in a state that
\* keeps nothing of the outcome (so the final exit status cannot depend on
\* it), and the step after the delay enters the build.
C17_KillFailureSwallowed ==
    [][/\ KillEnded' => KillStepSwallowed
       /\ KillEnded => SettleStepBuilds
       /\ KillEnded' => (Len(log') > 2 => IsBuild(log'[3]))]_vars

\* the termination program was missing and the run went on to build and serve
C17_Witness ==
    /\ KillEnded /\ children[2].kind = "notfound"
    /\ BuildSucceeded /\ Called("start_server") /\ pc = "exited" /\ status = <<0>>

\* C18: once the test runner has printed its summary, exactly one summary
\* block is in the output, it says 'passed' if and only if the aggregate exit
\* code is 0, and it shows the numeric aggregate exit code, for passing and
\* failing runs alike.
C18_SummaryEchoesExitCode ==
    (script = "run-tests" /\ Called("print_summary")) =>
        /\ Cardinality({i \in 1..Len(out) : IsSummaryLine(out[i])}) = 1
        /\ (\E i \in 1..Len(out) : out[i].msg = "ALL TESTS PASSED") <=> exit_code = 0
        /\ \E i \in 1..Len(out) : out[i] = LineC("Exit code", exit_code)

\* the mode flags in the order main tests them
ModePriority == <<"coverage", "unit", "service", "integration", "stdio", "fast", "watch">>
\* the mode the fixed priority selects for a set of flags; --all plays no part
ExpectedMode(a) ==
    LET hits == {i \in 1..Len(ModePriority) : ModePriority[i] \in a} IN
    IF hits = {} THEN "all"
    ELSE ModePriority[CHOOSE i \in hits : \A j \in hits : i <= j]
\* the function that implements each mode
ModeFunction(m) ==
    CASE m = "coverage" -> "run_tests_with_coverage"
      [] m \in DeclaredScopes -> "run_specific_tests"
      [] m = "fast" -> "run_fast_tests"
      [] m = "watch" -> "run_watch_tests"
      [] m = "all" -> "run_all_tests"
IsModeFunction(f) ==
    f \in {"run_tests_with_coverage", "run_specific_tests", "run_fast_tests",
           "run_watch_tests", "run_all_tests"}
\* the mode functions entered so far
ModeCalls == SelectSeq(calls, IsModeFunction)
\* the pre-flight check succeeded and main has dispatched
Dispatched ==
    /\ script = "run-tests" /\ Len(children) >= 1
    /\ children[1].kind = "exit" /\ children[1].code = 0
    /\ pc # "dispatch"

\* C19: for every set of mode flags, a run that passes the pre-flight check
\* executes exactly one mode, the one the priority coverage, unit, service,
\* integration, stdio, fast, watch, else all selects; --all plays no part.
C19_OneModeByPriority ==
    Dispatched =>
        LET fn == ModeFunction(ExpectedMode(args)) IN
        /\ Len(ModeCalls) <= 1
        /\ ModeCalls = <<>> => pc = fn
        /\ ModeCalls # <<>> => ModeCalls[1] = fn /\ ~IsModeFunction(pc)
        /\ fn = "run_specific_tests" => category = ExpectedMode(args)

\* several flags at once, --all among them: fast wins over watch and all
C19_Witness ==
    /\ Dispatched /\ args = {"all", "watch", "fast"}
    /\ ModeCalls = <<"run_fast_tests">> /\ pc = "exited"

\* C20: an operator interrupt delivered while the termination command runs is
\* swallowed like any other failure of that step: the step leaves the script
\* at the settle delay with no message and no status, and the step after the
\* delay enters the build.
C20_KillInterruptSwallowed ==
    [][/\ KillInterrupted' => KillStepSwallowed
       /\ KillInterrupted => SettleStepBuilds]_vars

\* an interrupted termination command followed by the build and the service
C20_Witness ==
    /\ KillInterrupted /\ BuildSucceeded /\ Called("start_server")
    /\ Len(log) = 4 /\ log[4] = <<"dotnet", "run">>

====
